---- MODULE Spec2Model ----
(***************************************************************************)
(* State-machine model of ghrepo_followers: the paginated relation         *)
(* fetchers, the TinyDB-backed profile cache, the profile resolver and the *)
(* command-line run that strings them together.                            *)
(***************************************************************************)
EXTENDS Integers, Sequences, FiniteSets, TLC

VARIABLES
    pc,         \* control position of the program
    fetcher,    \* which listing method is running (file and relation)
    expected,   \* stargazers_count / subscribers_count / forks_count
    page,       \* local `page` of the running fetcher
    users,      \* local `users` accumulator of the running fetcher
    log,        \* history: the listing requests issued by the running fetcher
    ret_users,  \* list returned by the last finished listing method
    raised,     \* exception propagating out of the last finished call
    db,         \* TinyDB('./db.json'): table name -> documents, in doc_id order
    repo,       \* self.repo of the GithubRepo at work
    username,   \* argument of the running __get_user_info
    retry_limit,\* local `retry_limit` of the running __get_user_info
    user,       \* local `user` of the running __get_user_info
    ret_user,   \* dictionary returned by the last finished __get_user_info
    rlog,       \* history: cache and remote operations of the running resolution
    clock,      \* history: the clock readings behind the last __time_remaining
    repos,      \* the --repo options given on the command line
    repo_idx,   \* position of the `for _repo in repo` loop
    map_idx,    \* position of map() in the list a listing method returned
    mapped,     \* the list map() has built so far for the relation at work
    info,       \* starrers, watchers, forkers of get_all_users_info, once built
    all_users,  \* local `users` of get_all_users
    exit_code,  \* process exit status, None while running
    files,      \* the CSV files written: file name -> rows
    stored,     \* history: cache key -> the profile last stored under it
    replaced,   \* history: the document the last store replaced, {} if none
    writers     \* history: who stored what: (repository, username) pairs

fetchVars == <<fetcher, expected, page, users, log, ret_users>>
resolveVars == <<username, retry_limit, user, ret_user, rlog, clock>>
runVars == <<repos, repo_idx, map_idx, mapped, info, all_users, exit_code,
            files, stored, replaced, writers>>
vars == <<pc, fetcher, expected, page, users, log, ret_users, raised,
          db, repo, username, retry_limit, user, ret_user, rlog, clock,
          repos, repo_idx, map_idx, mapped, info, all_users, exit_code, files,
          stored, replaced, writers>>

(***************************************************************************)
(* Bounds of the model.                                                    *)
(***************************************************************************)
MaxCount == 2       \* largest relation count the repository metadata reports
MaxPageSize == 2    \* largest number of entries the remote puts on one page

Usernames == {"alice", "bob"}

(***************************************************************************)
(* Program constants.                                                      *)
(***************************************************************************)
HTTP_OK == 200
FirstPage == 1

\* Status codes the listing endpoint answers with: success, or a refusal
\* (403 is what the platform sends when the rate limit is exhausted).
Statuses == {HTTP_OK, 403}

None == "<None>"              \* Python's None
EmptyDict == <<>>             \* Python's {}
Unbound == [unbound |-> TRUE] \* a local that has not been assigned yet
NoError == [type |-> "none"]  \* nothing is propagating

(***************************************************************************)
(* The listing methods.  ghrepo_followers.py has one per relation; main.py *)
(* holds an older __get_starrers.                                          *)
(***************************************************************************)
Stars == [file |-> "ghrepo_followers.py", rel |-> "stargazers"]
Watch == [file |-> "ghrepo_followers.py", rel |-> "subscribers"]
Forks == [file |-> "ghrepo_followers.py", rel |-> "forks"]
MainStars == [file |-> "main.py", rel |-> "stargazers"]

Fetchers == {Stars, Watch, Forks, MainStars}

\* One entry of a listing response: a user object for stargazers and
\* subscribers, a repository object with a nested owner for forks.
Entry(f, u) ==
    IF f.rel = "forks" THEN [owner |-> [login |-> u]] ELSE [login |-> u]

Entries(f) == {Entry(f, u) : u \in Usernames}

\* Every page body the remote may answer with (r.json()).
Pages(f) == UNION {[1..n -> Entries(f)] : n \in 0..MaxPageSize}

\* users_per_page = [user['login'] for user in res_per_page]
\* users_per_page = [user['owner']['login'] for user in res_per_page]
UsersPerPage(f, res) ==
    [i \in 1..Len(res) |->
        IF f.rel = "forks" THEN res[i].owner.login ELSE res[i].login]

LoopCondInclusive(us, n) == Len(us) <= n

\* while len(users) < stargazers_count
LoopCond(us, n) == Len(us) < n

StatusNeverFails(s) == FALSE

\* if r.status_code != 200
StatusFails(s) == s # HTTP_OK

IsEmptyPageNever(res) == FALSE

\* if not res_per_page
IsEmptyPage(res) == Len(res) = 0

AccumulateReplaces(us, per_page) == per_page

\* users += users_per_page
Accumulate(us, per_page) == us \o per_page

NextPageSame(p) == p

\* page += 1
NextPage(p) == p + 1

\* What the raise statement of the listing method throws: ghrepo_followers.py
\* raises Exception(...); main.py evaluates raise('...'), and raising a str
\* is itself a TypeError.
ListingError(f) ==
    IF f.file = "main.py"
      THEN [type |-> "TypeError", msg |-> "exceptions must derive from BaseException"]
      ELSE [type |-> "Exception",
            msg |-> "Github API Failed. Please check for rate limits."]

(***************************************************************************)
(* The fetch loop.                                                         *)
(***************************************************************************)
\* Entry of a listing method: read the count, page = 1, users = [].
FetchBegin(f, n) ==
    /\ pc = "call_fetch"
    /\ fetcher = f
    /\ expected' = n
    /\ page' = FirstPage
    /\ users' = <<>>
    /\ log' = <<>>
    /\ pc' = "fetch_loop"
    /\ UNCHANGED <<fetcher, ret_users, raised, db, repo, resolveVars, runVars>>

\* One iteration of the while loop: request `page`, then raise, break or
\* accumulate.
FetchRequest(s, res) ==
    /\ pc = "fetch_loop"
    /\ LoopCond(users, expected)
    /\ log' = Append(log, [page |-> page, status |-> s, body |-> res])
    /\ IF StatusFails(s)
         THEN /\ pc' = "fetch_raised"
              /\ raised' = ListingError(fetcher)
              /\ UNCHANGED <<users, page, ret_users>>
         ELSE IF IsEmptyPage(res)
         THEN /\ pc' = "fetched"
              /\ ret_users' = users
              /\ UNCHANGED <<users, page, raised>>
         ELSE /\ users' = Accumulate(users, UsersPerPage(fetcher, res))
              /\ page' = NextPage(page)
              /\ UNCHANGED <<pc, ret_users, raised>>
    /\ UNCHANGED <<fetcher, expected, db, repo, resolveVars, runVars>>

\* The loop condition is false: return users.
FetchReturn ==
    /\ pc = "fetch_loop"
    /\ ~LoopCond(users, expected)
    /\ pc' = "fetched"
    /\ ret_users' = users
    /\ UNCHANGED <<fetcher, expected, page, users, log, raised, db, repo,
                   resolveVars, runVars>>

(***************************************************************************)
(* Repositories and remote profiles.                                       *)
(***************************************************************************)
\* Repository objects get_repo may return; .name is the short name.
Repositories ==
    { [owner |-> "d6t", name |-> "d6tpipe"],
      [owner |-> "d6t", name |-> "d6tflow"],
      [owner |-> "fork", name |-> "d6tpipe"] }

RepoNames == {r.name : r \in Repositories}

\* Values the remote reports for a profile's email.
Emails == {None, "", "user@x.com"}

\* The NamedUser object g.get_user(username) returns.
NamedUser(u, e) ==
    [login |-> u, name |-> "Name", email |-> e, blog |-> "blog.x.com",
     company |-> "Org", location |-> "City"]

\* user = {'username': gh_user.login, 'name': gh_user.name, ...}
UserDict(gh_user) ==
    [username |-> gh_user.login, name |-> gh_user.name, email |-> gh_user.email,
     website |-> gh_user.blog, organization |-> gh_user.company,
     location |-> gh_user.location]

Profiles == {UserDict(NamedUser(u, e)) : u \in Usernames, e \in Emails}

\* Python truthiness of a dictionary: `if user`
Truthy(d) == DOMAIN d # {}

(***************************************************************************)
(* The cache: a TinyDB table per repository short name.                    *)
(***************************************************************************)
EmptyDb == [n \in RepoNames |-> <<>>]

SearchByName(table, name) == SelectSeq(table, LAMBDA doc : doc.name = name)

\* table.search(Query()['username'] == username)
Search(table, name) == SelectSeq(table, LAMBDA doc : doc.username = name)

GetUserFromDbMisses(d, r, name, ok) == EmptyDict

GetUserFromDbDespiteError(d, r, name, ok) ==
    LET found == Search(d[r.name], name)
    IN  IF Len(found) > 0 THEN found[1] ELSE EmptyDict

\* __get_user_from_db; `ok` is FALSE when TinyDB raises, which the method
\* catches and answers with {}.
GetUserFromDb(d, r, name, ok) ==
    IF ~ok THEN EmptyDict
    ELSE LET found == Search(d[r.name], name)
         IN  IF Len(found) > 0 THEN found[1] ELSE EmptyDict

UpdateKeepsDocument(doc, fields) == doc

\* A TinyDB document updated with the fields of `fields` (dict.update).
Update(doc, fields) ==
    [k \in DOMAIN doc \cup DOMAIN fields |->
        IF k \in DOMAIN fields THEN fields[k] ELSE doc[k]]

UpsertInsertOnly(table, u) == Append(table, u)

\* table.upsert(user, Query()['username'] == user['username']): update every
\* matching document, insert when none matches.
Upsert(table, u) ==
    IF \E i \in 1..Len(table) : table[i].username = u.username
      THEN [i \in 1..Len(table) |->
              IF table[i].username = u.username
                THEN Update(table[i], u) ELSE table[i]]
      ELSE Append(table, u)

SaveNothing(d, r, u, ok) == d

SaveIntoFreshTable(d, r, u, ok) == IF ~ok THEN d ELSE [d EXCEPT ![r.name] = <<u>>]

SaveIntoSharedTable(d, r, u, ok) ==
    IF ~ok THEN d
    ELSE [n \in DOMAIN d |->
            IF \E j \in 1..Len(d[n]) : d[n][j].username = u.username
              THEN [j \in 1..Len(d[n]) |->
                      IF d[n][j].username = u.username THEN u ELSE d[n][j]]
              ELSE Append(d[n], u)]

\* __save_user_to_db; `ok` is FALSE when TinyDB raises, which the method
\* catches, leaving the table as it was.
SaveUserToDb(d, r, u, ok) ==
    IF ~ok THEN d ELSE [d EXCEPT ![r.name] = Upsert(@, u)]

(***************************************************************************)
(* The resolver, __get_user_info.                                          *)
(***************************************************************************)
RetryLimit == 3

IntDivFloor(a, b) == a \div b

\* int(x / 60): Python's int() truncates toward zero.
IntDiv(a, b) == IF a >= 0 THEN a \div b ELSE -((-a) \div b)

\* __time_remaining(epoch); time.time() is read twice.
TimeRemaining(epoch, current_epoch, second_reading) ==
    IF epoch > current_epoch
      THEN IntDiv(epoch - second_reading, 60)
      ELSE 0

\* Clock readings: the reset time reported by the API and the two readings
\* of time.time(), in seconds.  The second reading is the same second, the
\* next one, or much later (the process was suspended in between).
Clocks ==
    { [reset |-> 1000 + d, now |-> 1000, later |-> 1000 + l] :
        d \in {-30, 0, 30, 59, 60, 150}, l \in {0, 1, 45} }

NoClock == [reset |-> 0, now |-> 0, later |-> 0]

\* What g.get_user(username) does: return a NamedUser, raise a
\* GithubException (rate limit exceeded, or another API error such as an
\* unknown user), or raise some other exception (network failure).
RemoteOutcomes(u) ==
    { [kind |-> "ok", gh_user |-> NamedUser(u, e)] : e \in Emails }
    \cup { [kind |-> "GithubException", status |-> st] : st \in {403, 404} }
    \cup { [kind |-> "ConnectionError"] }

IsGithubExceptionNever(o) == FALSE

\* except GithubException as e
IsGithubException(o) == o.kind = "GithubException"

\* raise Exception('API rate limit exceeded. Please try again after ', m, 'minute(s)')
RateLimitError(m) ==
    [type |-> "Exception", msg |-> "API rate limit exceeded", minutes |-> m]

DecrementNot(n) == n

\* retry_limit -= 1
Decrement(n) == n - 1

\* History records.  A lookup record notes whether the table really held the
\* username when TinyDB was asked, and whether TinyDB answered or raised.
Present(d, r, name) == \E j \in 1..Len(d[r.name]) : d[r.name][j].username = name

LookupEvent(ok, present) == [op |-> "lookup", ok |-> ok, present |-> present]
RemoteEvent(o) == [op |-> "get_user", outcome |-> o]
StoreEvent(ok) == [op |-> "store", ok |-> ok]

\* The key a profile is filed under: the table name and the queried field.
CacheKey(r, name) == <<r.name, name>>

\* History of the stores TinyDB completed: the profile last filed under each
\* key, the document that store found in the table, and who stored what.
Stored(h, r, u, ok) ==
    IF ok
      THEN [key \in DOMAIN h \cup {CacheKey(r, u.username)} |->
              IF key = CacheKey(r, u.username) THEN u ELSE h[key]]
      ELSE h

Replaced(d, r, u, ok) ==
    IF ok /\ Present(d, r, u.username)
      THEN Search(d[r.name], u.username)[1]
      ELSE EmptyDict

Writers(w, r, u, ok) ==
    IF ok THEN w \cup {[repo |-> r, username |-> u.username]} ELSE w

\* Entry of __get_user_info: retry_limit = 3.
ResolveBegin(u) ==
    /\ pc = "call_resolve"
    /\ username = u
    /\ retry_limit' = RetryLimit
    /\ user' = Unbound
    /\ rlog' = <<>>
    /\ pc' = "resolve_loop"
    /\ UNCHANGED <<username, ret_user, clock, raised, db, repo, fetchVars, runVars>>

\* One iteration of `while retry_limit`: cache lookup, then on a miss the
\* remote lookup and the cache store, with the two except clauses.
ResolveAttempt(lookup_ok, o, store_ok, c) ==
    /\ pc = "resolve_loop"
    /\ retry_limit # 0
    /\ LET cached == GetUserFromDb(db, repo, username, lookup_ok)
           looked == Append(rlog, LookupEvent(lookup_ok, Present(db, repo, username)))
       IN  IF Truthy(cached)
             THEN /\ user' = cached
                  /\ ret_user' = cached
                  /\ rlog' = looked
                  /\ pc' = "resolved"
                  /\ UNCHANGED <<retry_limit, db, raised, clock, stored, replaced,
                                 writers>>
           ELSE IF o.kind = "ok"
             THEN /\ user' = UserDict(o.gh_user)
                  /\ db' = SaveUserToDb(db, repo, user', store_ok)
                  /\ stored' = Stored(stored, repo, user', store_ok)
                  /\ replaced' = Replaced(db, repo, user', store_ok)
                  /\ writers' = Writers(writers, repo, user', store_ok)
                  /\ ret_user' = user'
                  /\ rlog' = looked \o <<RemoteEvent(o), StoreEvent(store_ok)>>
                  /\ pc' = "resolved"
                  /\ UNCHANGED <<retry_limit, raised, clock>>
           ELSE IF IsGithubException(o)
             THEN /\ user' = cached
                  /\ rlog' = Append(looked, RemoteEvent(o))
                  /\ clock' = c
                  /\ raised' = RateLimitError(TimeRemaining(c.reset, c.now, c.later))
                  /\ pc' = "resolve_raised"
                  /\ UNCHANGED <<retry_limit, db, ret_user, stored, replaced,
                                 writers>>
           ELSE   /\ user' = cached
                  /\ rlog' = Append(looked, RemoteEvent(o))
                  /\ retry_limit' = Decrement(retry_limit)
                  /\ UNCHANGED <<pc, db, ret_user, raised, clock, stored,
                                 replaced, writers>>
    /\ UNCHANGED <<username, repo, fetchVars, repos, repo_idx, map_idx, mapped,
                   info, all_users, exit_code, files>>

\* retry_limit reached 0: return user.
ResolveReturn ==
    /\ pc = "resolve_loop"
    /\ retry_limit = 0
    /\ ret_user' = user
    /\ pc' = "resolved"
    /\ UNCHANGED <<username, retry_limit, user, rlog, clock, raised, db, repo,
                   fetchVars, runVars>>

\* No listing call has run yet.
FetchIdle ==
    /\ fetcher = Stars
    /\ expected = 0
    /\ page = FirstPage
    /\ users = <<>>
    /\ log = <<>>
    /\ ret_users = <<>>

\* No resolution has run yet.
ResolveIdle ==
    /\ username = None
    /\ retry_limit = 0
    /\ user = Unbound
    /\ ret_user = EmptyDict
    /\ rlog = <<>>
    /\ clock = NoClock

(***************************************************************************)
(* The command-line run, get_all_users, and get_all_users_info.            *)
(***************************************************************************)
\* A URL is modelled as its sequence of segments, the host prefix first.
HostPrefix == "https://github.com/"

Url(r) == <<HostPrefix, r.owner, "/", r.name>>

\* A URL that does not start with the expected prefix.
BadUrl == <<"http://github.com/", "d6t", "/", "d6tpipe">>

\* __parse_repo_name_from_url: url.replace('https://github.com/', '')
ParseRepoNameFromUrl(url) == SelectSeq(url, LAMBDA seg : seg # HostPrefix)

\* What self.g.get_repo(full_name) does: return the Repository, or raise a
\* GithubException (unknown repository, rate limit), or fail on the network.
GetRepoOutcomes(full_name) ==
    { [kind |-> "ok", repo |-> r] :
        r \in {x \in Repositories : full_name = <<x.owner, "/", x.name>>} }
    \cup { [kind |-> "GithubException"], [kind |-> "ConnectionError"] }

\* get_all_users_info builds starrers, then watchers, then forkers.
RelationOrder == <<Stars, Watch, Forks>>

RECURSIVE Distinct(_)
Distinct(seq) ==
    IF seq = <<>> THEN <<>>
    ELSE LET front == Distinct(SubSeq(seq, 1, Len(seq) - 1))
             last == seq[Len(seq)]
         IN  IF \E j \in 1..Len(front) : front[j] = last
               THEN front ELSE Append(front, last)

ConcatDistinct(lists) == Distinct(lists[1] \o lists[2] \o lists[3])

\* return starrers + watchers + forkers
Concat(lists) == lists[1] \o lists[2] \o lists[3]

\* GithubRepo(_repo, access_token): the constructor.
Construct(o, c) ==
    /\ pc = "main_loop"
    /\ repo_idx <= Len(repos)
    /\ o \in GetRepoOutcomes(ParseRepoNameFromUrl(repos[repo_idx]))
    /\ IF o.kind = "ok"
         THEN /\ repo' = o.repo
              /\ fetcher' = RelationOrder[1]
              /\ info' = <<>>
              /\ mapped' = <<>>
              /\ map_idx' = 1
              /\ pc' = "call_fetch"
              /\ UNCHANGED <<raised, clock>>
         ELSE IF IsGithubException(o)
         THEN /\ clock' = c
              /\ raised' = RateLimitError(TimeRemaining(c.reset, c.now, c.later))
              /\ pc' = "raised"
              /\ UNCHANGED <<repo, fetcher, info, mapped, map_idx>>
         ELSE /\ raised' = [type |-> o.kind, msg |-> "connection failed"]
              /\ pc' = "raised"
              /\ UNCHANGED <<repo, fetcher, info, mapped, map_idx, clock>>
    /\ UNCHANGED <<expected, page, users, log, ret_users, db, username,
                   retry_limit, user, ret_user, rlog, repos, repo_idx,
                   all_users, exit_code, files, stored, replaced,
                   writers>>

\* map(): hand the next listed username to __get_user_info.
MapCall ==
    /\ pc = "fetched"
    /\ map_idx <= Len(ret_users)
    /\ username' = ret_users[map_idx]
    /\ pc' = "call_resolve"
    /\ UNCHANGED <<retry_limit, user, ret_user, rlog, clock, raised, db, repo,
                   fetchVars, runVars>>

\* map(): take the dictionary __get_user_info returned.
MapCollect ==
    /\ pc = "resolved"
    /\ mapped' = Append(mapped, ret_user)
    /\ map_idx' = map_idx + 1
    /\ pc' = "fetched"
    \* the frame of __get_user_info is gone
    /\ username' = None /\ retry_limit' = 0 /\ user' = Unbound
    /\ ret_user' = EmptyDict /\ rlog' = <<>> /\ clock' = NoClock
    /\ UNCHANGED <<raised, db, repo, fetchVars, repos, repo_idx, info, all_users,
                   exit_code, files, stored, replaced, writers>>

\* The list of one relation is complete: go on to the next relation, or
\* return the three lists concatenated and let get_all_users add them.
MapFinish ==
    /\ pc = "fetched"
    /\ map_idx > Len(ret_users)
    /\ LET built == Append(info, mapped)
       IN  IF Len(built) < Len(RelationOrder)
             THEN /\ info' = built
                  /\ fetcher' = RelationOrder[Len(built) + 1]
                  /\ pc' = "call_fetch"
                  /\ UNCHANGED <<all_users, repo_idx>>
             ELSE /\ info' = built
                  /\ all_users' = all_users \o Concat(built)
                  /\ repo_idx' = repo_idx + 1
                  /\ pc' = "main_loop"
                  /\ UNCHANGED fetcher
    /\ mapped' = <<>>
    /\ map_idx' = 1
    \* the frame of the listing method is gone
    /\ expected' = 0 /\ page' = FirstPage /\ users' = <<>> /\ log' = <<>>
    /\ ret_users' = <<>>
    /\ UNCHANGED <<raised, db, repo, resolveVars, repos, exit_code, files, stored,
                   replaced, writers>>

\* An exception raised by a listing method or by __get_user_info leaves
\* get_all_users_info.
Propagate ==
    /\ pc \in {"fetch_raised", "resolve_raised"}
    /\ pc' = "raised"
    /\ UNCHANGED <<raised, db, repo, fetchVars, resolveVars, runVars>>

\* except Exception as e: click.echo(...); sys.exit(1)
ExitOnError ==
    /\ pc = "raised"
    /\ exit_code' = 1
    /\ pc' = "exited"
    /\ UNCHANGED <<raised, db, repo, fetchVars, resolveVars, repos, repo_idx,
                   map_idx, mapped, info, all_users, files, stored, replaced,
                   writers>>

\* pandas: the columns of DataFrame(users) are the keys of the dictionaries.
Columns(us) == UNION {DOMAIN us[j] : j \in 1..Len(us)}

\* pandas: a key a dictionary lacks becomes NaN in its row.
NaN == "<NaN>"
Row(d, cols) == [c \in cols |-> IF c \in DOMAIN d THEN d[c] ELSE NaN]

\* Series.isna(): None and NaN are missing, the empty string is not.
IsNa(v) == v \in {None, NaN}

EmailsFile == "users-emails.csv"
NoEmailsFile == "users-noemails.csv"

\* df_users[~df_users['email'].isna()] and df_users[df_users['email'].isna()]
Export ==
    /\ pc = "main_loop"
    /\ repo_idx > Len(repos)
    /\ LET cols == Columns(all_users)
           df_users == [j \in 1..Len(all_users) |-> Row(all_users[j], cols)]
       IN  IF "email" \in cols
             THEN /\ files' =
                       (EmailsFile :> SelectSeq(df_users, LAMBDA r : ~IsNa(r.email)))
                       @@ (NoEmailsFile :> SelectSeq(df_users, LAMBDA r : IsNa(r.email)))
                  /\ exit_code' = 0
                  /\ pc' = "done"
                  /\ UNCHANGED raised
             ELSE /\ raised' = [type |-> "KeyError", msg |-> "email"]
                  /\ exit_code' = 1
                  /\ pc' = "crashed"
                  /\ UNCHANGED files
    /\ UNCHANGED <<db, repo, fetchVars, resolveVars, repos, repo_idx, map_idx,
                   mapped, info, all_users, stored, replaced, writers>>

\* The command-line run has not started (a method is called on its own).
RunIdle ==
    /\ repos = <<>>
    /\ repo_idx = 1
    /\ map_idx = 1
    /\ mapped = <<>>
    /\ info = <<>>
    /\ all_users = <<>>
    /\ exit_code = None
    /\ files = <<>>
    /\ stored = <<>>
    /\ replaced = EmptyDict
    /\ writers = {}

(***************************************************************************)
(* Specification of one listing call, for any of the four methods.         *)
(***************************************************************************)
InitFetch ==
    /\ pc = "call_fetch"
    /\ fetcher \in Fetchers
    /\ expected = 0
    /\ page = FirstPage
    /\ users = <<>>
    /\ log = <<>>
    /\ ret_users = <<>>
    /\ raised = NoError
    /\ db = EmptyDb
    /\ repo \in Repositories
    /\ ResolveIdle
    /\ RunIdle

NextFetch ==
    \/ \E n \in 0..MaxCount : FetchBegin(fetcher, n)
    \/ \E s \in Statuses : \E res \in Pages(fetcher) : FetchRequest(s, res)
    \/ FetchReturn

SpecFetch == InitFetch /\ [][NextFetch]_vars

\* The same call when every statement that is reached gets executed: the
\* interpreter runs the loop on, and every HTTP request is answered.
SpecFetchLive == InitFetch /\ [][NextFetch]_vars /\ WF_vars(NextFetch)

(***************************************************************************)
(* Specification of one __get_user_info call against any cache contents.   *)
(***************************************************************************)
\* Tables the program can have written: at most one document per username.
Tables == UNION {[1..n -> Profiles] : n \in 0..Cardinality(Usernames)}

ReachableTables ==
    {t \in Tables : \A a, b \in 1..Len(t) : t[a].username = t[b].username => a = b}

InitResolve ==
    /\ pc = "call_resolve"
    /\ repo \in Repositories
    /\ db \in {d \in [RepoNames -> ReachableTables] :
                 \A n \in RepoNames : n # repo.name => d[n] = <<>>}
    /\ username \in Usernames
    /\ retry_limit = 0
    /\ user = Unbound
    /\ ret_user = EmptyDict
    /\ rlog = <<>>
    /\ clock = NoClock
    /\ raised = NoError
    /\ FetchIdle
    /\ RunIdle

NextResolve ==
    \/ ResolveBegin(username)
    \/ \E lookup_ok, store_ok \in BOOLEAN : \E o \in RemoteOutcomes(username) :
         \E c \in Clocks : ResolveAttempt(lookup_ok, o, store_ok, c)
    \/ ResolveReturn

SpecResolve == InitResolve /\ [][NextResolve]_vars

(***************************************************************************)
(* Specification of the command-line run.                                  *)
(***************************************************************************)
MaxRepos == 1       \* number of --repo options of a run
RunMaxCount == 1    \* largest relation count during a run
RunPageSize == 1    \* largest listing page during a run

\* During a run alice's profile shows an address and bob's shows none: the
\* remote reports bob's email as null or as the empty string.
RunEmails(u) == IF u = "alice" THEN {"user@x.com"} ELSE {None, ""}

RunOutcomes(u) ==
    {o \in RemoteOutcomes(u) : o.kind = "ok" => o.gh_user.email \in RunEmails(u)}

RunPages(f) == {res \in Pages(f) : Len(res) <= RunPageSize}

RepoArgs == {Url(r) : r \in Repositories} \cup {BadUrl}

Init ==
    /\ pc = "main_loop"
    /\ repos \in UNION {[1..n -> RepoArgs] : n \in 1..MaxRepos}
    /\ repo_idx = 1
    /\ map_idx = 1
    /\ mapped = <<>>
    /\ info = <<>>
    /\ all_users = <<>>
    /\ exit_code = None
    /\ files = <<>>
    /\ stored = <<>>
    /\ replaced = EmptyDict
    /\ writers = {}
    /\ repo = [owner |-> None, name |-> None]
    /\ db = EmptyDb
    /\ raised = NoError
    /\ FetchIdle
    /\ ResolveIdle

Next ==
    \/ \E o \in UNION {GetRepoOutcomes(ParseRepoNameFromUrl(u)) : u \in RepoArgs} :
         \E c \in Clocks : Construct(o, c)
    \/ \E n \in 0..RunMaxCount : FetchBegin(fetcher, n)
    \/ \E s \in Statuses : \E res \in RunPages(fetcher) : FetchRequest(s, res)
    \/ FetchReturn
    \/ MapCall
    \/ ResolveBegin(username)
    \/ \E lookup_ok, store_ok \in BOOLEAN : \E o \in RunOutcomes(username) :
         \E c \in Clocks : ResolveAttempt(lookup_ok, o, store_ok, c)
    \/ ResolveReturn
    \/ MapCollect
    \/ MapFinish
    \/ Propagate
    \/ ExitOnError
    \/ Export

Spec == Init /\ [][Next]_vars

(***************************************************************************)
(* Specification of the cache alone: __save_user_to_db and                 *)
(* __get_user_from_db called in any order with any arguments.              *)
(***************************************************************************)
\* A call of __save_user_to_db(u) on the GithubRepo of repository r.
CacheStore(r, u, ok) ==
    /\ pc = "cache"
    /\ repo' = r
    /\ db' = SaveUserToDb(db, r, u, ok)
    /\ rlog' = <<StoreEvent(ok)>>
    /\ stored' = Stored(stored, r, u, ok)
    /\ replaced' = Replaced(db, r, u, ok)
    /\ writers' = Writers(writers, r, u, ok)
    /\ username' = u.username
    /\ ret_user' = EmptyDict
    /\ UNCHANGED <<pc, raised, user, retry_limit, clock, fetchVars, repos,
                   repo_idx, map_idx, mapped, info, all_users, exit_code, files>>

\* A call of __get_user_from_db(name) on the GithubRepo of repository r.
CacheLookup(r, name, ok) ==
    /\ pc = "cache"
    /\ repo' = r
    /\ username' = name
    /\ ret_user' = GetUserFromDb(db, r, name, ok)
    /\ rlog' = <<LookupEvent(ok, Present(db, r, name))>>
    /\ replaced' = EmptyDict
    /\ UNCHANGED <<pc, raised, db, retry_limit, user, clock, fetchVars, repos,
                   repo_idx, map_idx, mapped, info, all_users, exit_code, files,
                   stored, writers>>

InitCache ==
    /\ pc = "cache"
    /\ repo \in Repositories
    /\ db = EmptyDb
    /\ raised = NoError
    /\ FetchIdle
    /\ ResolveIdle
    /\ RunIdle

NextCache ==
    \/ \E r \in Repositories : \E u \in Profiles : \E ok \in BOOLEAN :
         CacheStore(r, u, ok)
    \/ \E r \in Repositories : \E name \in Usernames : \E ok \in BOOLEAN :
         CacheLookup(r, name, ok)

SpecCache == InitCache /\ [][NextCache]_vars

(***************************************************************************)
(* Properties of the listing methods, checked under SpecFetch.             *)
(***************************************************************************)
\* Number of entries on the first m pages the running fetcher requested.
RECURSIVE Received(_)
Received(m) == IF m = 0 THEN 0 ELSE Received(m - 1) + Len(log[m].body)

\* The identifiers of the first m requested pages, in order: the login of a
\* stargazer or subscriber, the login of a fork's owner.
RECURSIVE Identifiers(_)
Identifiers(m) ==
    IF m = 0 THEN <<>>
    ELSE Identifiers(m - 1) \o
         [j \in 1..Len(log[m].body) |->
            IF "owner" \in DOMAIN log[m].body[j]
              THEN log[m].body[j].owner.login ELSE log[m].body[j].login]

LastPageEmpty ==
    /\ Len(log) > 0
    /\ log[Len(log)].status = HTTP_OK
    /\ log[Len(log)].body = <<>>

LargestPage ==
    IF log = <<>> THEN 0
    ELSE CHOOSE n \in 0..MaxPageSize :
           /\ \E j \in 1..Len(log) : Len(log[j].body) = n
           /\ \A j \in 1..Len(log) : Len(log[j].body) <= n

\* C1: absent a non-200 response, a page is requested only while fewer than
\* `expected` usernames are accumulated and no earlier page was empty, and the
\* method returns only once the count is >= expected or the last page received
\* was empty.
C1_StopsExactlyAtCountOrEmptyPage ==
    /\ \A j \in 1..Len(log) :
         /\ Received(j - 1) < expected
         /\ \A m \in 1..(j - 1) : log[m].status = HTTP_OK /\ log[m].body # <<>>
    /\ pc = "fetched" => (Len(ret_users) >= expected \/ LastPageEmpty)
    /\ (pc = "fetch_loop" /\ (Len(users) >= expected \/ LastPageEmpty)) =>
         ~ENABLED (\E s \in Statuses : \E res \in Pages(fetcher) : FetchRequest(s, res))

\* C1 witness: a fetch that stopped on the count after a second, non-empty page.
C1_Witness ==
    /\ pc = "fetched"
    /\ Len(log) = 2
    /\ log[2].body # <<>>
    /\ Len(ret_users) >= expected
    /\ Len(log[1].body) < expected

\* C2: the returned list is never longer than expected plus the largest page
\* received, and an empty page ends the call at once, whatever `expected` is.
C2_LengthBoundAndEarlyReturn ==
    /\ Len(users) <= expected + LargestPage
    /\ pc = "fetched" => Len(ret_users) <= expected + LargestPage
    /\ LastPageEmpty => (pc = "fetched" /\ ret_users = users)

\* C2 witness: an empty page ended a fetch that had collected fewer than
\* `expected` usernames.
C2_Witness ==
    /\ pc = "fetched"
    /\ LastPageEmpty
    /\ 0 < Len(ret_users)
    /\ Len(ret_users) < expected

\* C3: the k-th request carries page number k, and the accumulator and the
\* returned list are the in-order concatenation of the identifiers of the
\* pages received; with expected = 2 and page 1 = [alice, bob] the result is
\* exactly [alice, bob].
C3_SequentialPagesInOrderConcatenation ==
    /\ \A j \in 1..Len(log) : log[j].page = j
    /\ pc \in {"fetch_loop", "fetched"} => users = Identifiers(Len(log))
    /\ pc = "fetched" => ret_users = Identifiers(Len(log))
    /\ (pc = "fetched" /\ expected = 2 /\ Len(log) >= 1
          /\ Identifiers(1) = <<"alice", "bob">>) => ret_users = <<"alice", "bob">>

\* C3 witness: the forks listing, two pages with different users, returned.
C3_Witness ==
    /\ pc = "fetched"
    /\ fetcher = Forks
    /\ Len(log) = 2
    /\ ret_users = <<"bob", "alice">>

\* C4: a non-200 answer ends the call by an exception: nothing is returned,
\* and the failed request is the last request of the call.
C4_Non200AbortsWithoutRetry ==
    \A j \in 1..Len(log) :
        log[j].status # HTTP_OK =>
            /\ j = Len(log)
            /\ pc = "fetch_raised"
            /\ raised.type \in {"Exception", "TypeError"}
            /\ ret_users = <<>>

\* C4 witness: the second request fails after a first page was accumulated.
C4_Witness ==
    /\ pc = "fetch_raised"
    /\ Len(log) = 2
    /\ users # <<>>
    /\ log[2].status # HTTP_OK

(***************************************************************************)
(* Properties of the resolver and of the cache.                            *)
(***************************************************************************)
RemoteCalls == {j \in 1..Len(rlog) : rlog[j].op = "get_user"}

Stores == {j \in 1..Len(rlog) : rlog[j].op = "store"}

\* g.get_user failed because the rate limit is exhausted.
IsRateLimitFailure(e) ==
    /\ e.op = "get_user"
    /\ e.outcome.kind = "GithubException"
    /\ e.outcome.status = 403

\* g.get_user failed for any other reason: another API error (an unknown
\* user), or a network error.
IsOtherFailure(e) ==
    /\ e.op = "get_user"
    /\ e.outcome.kind # "ok"
    /\ ~IsRateLimitFailure(e)

TransientFailures ==
    {j \in 1..Len(rlog) :
        rlog[j].op = "get_user" /\ rlog[j].outcome.kind = "ConnectionError"}

\* The run is being, or has been, ended by an exception.
Aborted == pc \in {"resolve_raised", "raised", "exited"}

\* Whole minutes left from the second clock reading to the reset time; 0 when
\* the reset time is not ahead of the clock.
CooldownMinutes ==
    IF clock.reset > clock.now /\ clock.reset > clock.later
      THEN CHOOSE m \in 0..3 :
             /\ m * 60 <= clock.reset - clock.later
             /\ clock.reset - clock.later < (m + 1) * 60
      ELSE 0

RateLimitAbort ==
    /\ Aborted
    /\ rlog # <<>>
    /\ IsRateLimitFailure(rlog[Len(rlog)])

\* C5: a rate-limit failure of the remote profile lookup is the last remote
\* call of the resolution and of the run: the resolver raises at once, the
\* error carries the remaining minutes, no store is issued for the username,
\* and after the abort no username is resolved, looked up or stored.
C5_RateLimitFailureIsTerminal ==
    /\ [](\A j \in 1..Len(rlog) :
            IsRateLimitFailure(rlog[j]) =>
                /\ j = Len(rlog)
                /\ Cardinality({m \in RemoteCalls : IsRateLimitFailure(rlog[m])}) = 1
                /\ Stores = {}
                /\ Aborted
                /\ raised.type = "Exception"
                /\ raised.msg = "API rate limit exceeded"
                /\ raised.minutes = CooldownMinutes
                /\ raised.minutes >= 0)
    /\ [][RateLimitAbort =>
            /\ RateLimitAbort'
            /\ rlog' = rlog
            /\ db' = db
            /\ username' = username
            /\ mapped' = mapped
            /\ info' = info
            /\ all_users' = all_users
            /\ files' = files]_vars

\* C5 witness: the run has exited after the starrers were resolved and a
\* watcher's lookup hit the rate limit with more than two minutes to wait.
C5_Witness ==
    /\ pc = "exited"
    /\ exit_code = 1
    /\ RateLimitAbort
    /\ Len(info) = 1
    /\ info[1] # <<>>
    /\ raised.minutes = 2

\* C6 (the claim as stated): a failure of the remote profile lookup that is
\* not rate-limit exhaustion, an API error for an unknown user included, does
\* not abort the run.
C6_OtherFailuresDoNotAbort ==
    \A j \in 1..Len(rlog) :
        IsOtherFailure(rlog[j]) => (~Aborted /\ raised = NoError)

\* C7: three transient failures in a row end the resolution with the empty
\* record and no exception, after exactly three remote calls and no store; no
\* resolution ever issues a fourth remote call.
C7_ThreeTransientFailuresDegrade ==
    /\ Cardinality(RemoteCalls) <= 3
    /\ Cardinality(TransientFailures) = 3 =>
         /\ Cardinality(RemoteCalls) = 3
         /\ Stores = {}
         /\ raised = NoError
         /\ pc \in {"resolve_loop", "resolved"}
         /\ pc = "resolve_loop" => ENABLED ResolveReturn
         /\ pc = "resolve_loop" =>
              ~ENABLED (\E lookup_ok, store_ok \in BOOLEAN :
                          \E o \in RemoteOutcomes(username) : \E c \in Clocks :
                             ResolveAttempt(lookup_ok, o, store_ok, c))
         /\ pc = "resolved" => ret_user = EmptyDict

\* C7 witness: an absent username resolved to {} after three network errors.
C7_Witness ==
    /\ pc = "resolved"
    /\ Cardinality(TransientFailures) = 3
    /\ ret_user = EmptyDict
    /\ \A j \in 1..Len(rlog) : rlog[j].op = "lookup" => ~rlog[j].present

\* The document the current table holds for the username being resolved.
CachedDocs ==
    {db[repo.name][j] : j \in {m \in 1..Len(db[repo.name]) :
                                  db[repo.name][m].username = username}}

\* C8: an attempt whose cache lookup finds the username ends the resolution
\* with the cached profile, without a remote call and without a store; when
\* this is the first attempt the resolution makes no remote call at all.
C8_CacheHitMakesNoRemoteCall ==
    \A j \in 1..Len(rlog) :
        (rlog[j].op = "lookup" /\ rlog[j].ok /\ rlog[j].present) =>
            /\ j = Len(rlog)
            /\ pc = "resolved"
            /\ raised = NoError
            /\ CachedDocs = {ret_user}
            /\ j = 1 => (RemoteCalls = {} /\ Stores = {})

\* C8 witness: a cached profile was returned on the first attempt.
C8_Witness ==
    /\ pc = "resolved"
    /\ Len(rlog) = 1
    /\ rlog[1].ok
    /\ rlog[1].present
    /\ ret_user \in Profiles
    /\ Len(db[repo.name]) = 2

\* The dictionary __get_user_info has to build from a NamedUser.
ProfileOf(gh_user) ==
    [username |-> gh_user.login, name |-> gh_user.name, email |-> gh_user.email,
     website |-> gh_user.blog, organization |-> gh_user.company,
     location |-> gh_user.location]

\* C9: for a username absent from the cache whose first remote lookup
\* succeeds, the resolution consists of that one remote call and one store,
\* returns the fetched profile, and (the store having gone through) a lookup
\* of the username now returns that profile.
C9_MissThenSuccessStoresOnce ==
    (/\ Len(rlog) >= 2
     /\ rlog[1].op = "lookup"
     /\ ~rlog[1].present
     /\ rlog[2].op = "get_user"
     /\ rlog[2].outcome.kind = "ok") =>
        /\ Len(rlog) = 3
        /\ rlog[3].op = "store"
        /\ pc = "resolved"
        /\ raised = NoError
        /\ ret_user = ProfileOf(rlog[2].outcome.gh_user)
        /\ rlog[3].ok => GetUserFromDb(db, repo, username, TRUE) = ret_user

\* C9 witness: a profile was fetched and stored next to another user's.
C9_Witness ==
    /\ pc = "resolved"
    /\ Len(rlog) = 3
    /\ rlog[1].ok
    /\ ~rlog[1].present
    /\ rlog[3] = StoreEvent(TRUE)
    /\ Len(db[repo.name]) = 2
    /\ db[repo.name][2] = ret_user

\* C10: a lookup returns exactly the profile last stored under its key, no
\* matter which other keys were stored before or since.
C10_StoreThenLookupRoundTrip ==
    /\ \A r \in Repositories : \A name \in Usernames :
         CacheKey(r, name) \in DOMAIN stored =>
            GetUserFromDb(db, r, name, TRUE) = stored[CacheKey(r, name)]
    /\ (/\ Len(rlog) = 1
        /\ rlog[1].op = "lookup"
        /\ rlog[1].ok
        /\ CacheKey(repo, username) \in DOMAIN stored) =>
            ret_user = stored[CacheKey(repo, username)]

\* C10 witness: a lookup returned a stored profile that is not the first
\* document of its table, with other keys stored in both tables.
C10_Witness ==
    /\ Len(rlog) = 1
    /\ rlog[1].op = "lookup"
    /\ rlog[1].ok
    /\ CacheKey(repo, username) \in DOMAIN stored
    /\ ret_user = stored[CacheKey(repo, username)]
    /\ Cardinality(DOMAIN stored) >= 3
    /\ db[repo.name][1].username # username

\* A step in which __save_user_to_db, called on its own, completed its upsert.
CompletedStore == pc = "cache" /\ rlog' = <<StoreEvent(TRUE)>>

\* C11: a completed store leaves exactly one document under its key, and a
\* lookup of the key then returns the profile just stored, whatever profile
\* the key held before (the table does not grow when it held one); storing
\* the profile the key already holds leaves the cache as it was.
C11_UpsertLastWriteWinsAndIdempotent ==
    [][CompletedStore =>
         LET u == stored'[CacheKey(repo', username')]
             before == GetUserFromDb(db, repo', username', TRUE)
             table == db'[repo'.name]
         IN  /\ Cardinality({j \in 1..Len(table) :
                               table[j].username = username'}) = 1
             /\ GetUserFromDb(db', repo', username', TRUE) = u
             /\ Truthy(before) => Len(table) = Len(db[repo'.name])
             /\ before = u => db' = db]_vars

\* C11 witness: the second store under a key, with a profile that differs
\* from the first, in a table that also holds another user.
C11_Witness ==
    /\ pc = "cache"
    /\ rlog = <<StoreEvent(TRUE)>>
    /\ Truthy(replaced)
    /\ replaced.username = username
    /\ replaced # stored[CacheKey(repo, username)]
    /\ GetUserFromDb(db, repo, username, TRUE) = stored[CacheKey(repo, username)]
    /\ Len(db[repo.name]) = 2

(***************************************************************************)
(* Properties of the cache over a whole run.                               *)
(***************************************************************************)
\* The document the table named n holds for a username, {} when it holds none.
Held(d, n, name) ==
    LET found == SelectSeq(d[n], LAMBDA doc : doc.username = name)
    IN  IF Len(found) > 0 THEN found[1] ELSE EmptyDict

\* A step in which the resolution of `name` for the repository named n
\* fetched the profile and stored it.
ResolvedAndStored(n, name) ==
    /\ pc = "resolve_loop"
    /\ pc' = "resolved"
    /\ repo.name = n
    /\ username = name
    /\ rlog' # <<>>
    /\ rlog'[Len(rlog')] = StoreEvent(TRUE)
    /\ ret_user' = Held(db', n, name)

\* The run is being, or has been, ended by an exception of a listing method,
\* of the resolver or of the constructor.
RunAborted == pc \in {"fetch_raised", "resolve_raised", "raised", "exited"}

\* The profiles the run has resolved so far (the degraded {} left out).
ResolvedProfiles ==
    {rec \in {all_users[j] : j \in 1..Len(all_users)}
              \cup {mapped[j] : j \in 1..Len(mapped)}
              \cup UNION {{info[m][j] : j \in 1..Len(info[m])} : m \in 1..Len(info)} :
        Truthy(rec)}

\* No step removes a key, and a key's value changes only in a step that
\* resolves and stores that username.
EntriesPersist ==
    \A n \in RepoNames : \A name \in Usernames :
        Truthy(Held(db, n, name)) =>
            /\ Truthy(Held(db', n, name))
            /\ Held(db', n, name) # Held(db, n, name) => ResolvedAndStored(n, name)

\* C12 (the claim as stated): keys are never removed, a value changes only by
\* a successful resolution of its username, and after an abort every profile
\* the run resolved before it can be retrieved from the cache.
C12_ResolvedProfilesSurviveAbort ==
    /\ [][EntriesPersist]_vars
    /\ [](RunAborted =>
            \A rec \in ResolvedProfiles :
                Truthy(Held(db, repo.name, rec.username)))

\* C12 (amended): keys are never removed, a value changes only by a
\* successful resolution of its username, and every profile a resolution
\* stored is retrievable from then on, after an abort too: its key returns
\* the profile last stored under it.
C12_StoredProfilesSurviveAbort ==
    /\ [][EntriesPersist]_vars
    /\ [](\A w \in writers :
            /\ Truthy(Held(db, w.repo.name, w.username))
            /\ Held(db, w.repo.name, w.username)
                 = stored[CacheKey(w.repo, w.username)])

\* C12 witness: the run was aborted by a failed forks listing after bob was
\* resolved as a starrer and, his lookup failing, fetched and stored again as
\* a watcher with another email; the later profile is the one retrievable.
C12_Witness ==
    /\ pc = "exited"
    /\ fetcher = Forks
    /\ Len(info) = 2
    /\ Len(info[1]) = 1 /\ Len(info[2]) = 1
    /\ Truthy(info[1][1]) /\ Truthy(info[2][1])
    /\ info[1][1].username = "bob" /\ info[2][1].username = "bob"
    /\ info[1][1].email # info[2][1].email
    /\ Held(db, repo.name, "bob") = info[2][1]
    /\ writers = {[repo |-> repo, username |-> "bob"]}

(***************************************************************************)
(* Properties of the command-line run and of the export.                   *)
(***************************************************************************)
\* The run is inside the try block of the loop, at work on repos[repo_idx].
InTry ==
    pc \in {"call_fetch", "fetch_loop", "fetched", "fetch_raised", "call_resolve",
            "resolve_loop", "resolved", "resolve_raised"}

\* The process has ended and no repository raised.
EndedWithoutRaise == pc \in {"done", "crashed"}

\* C13 (the claim as stated): repositories are processed in the order given;
\* when the constructor, a listing or a resolution raises, the process exits
\* non-zero with no CSV file written and no later repository touched; when
\* no repository raises, both CSV files are written and the exit status is
\* not non-zero.
C13_ExitStatusAndFiles ==
    /\ repo_idx \in 1..(Len(repos) + 1)
    /\ InTry => (repo_idx <= Len(repos) /\ Url(repo) = repos[repo_idx])
    /\ pc \in {"raised", "exited"} =>
         /\ repo_idx <= Len(repos)
         /\ files = <<>>
         /\ ~ENABLED (\E o \in UNION {GetRepoOutcomes(ParseRepoNameFromUrl(u)) :
                                         u \in RepoArgs} :
                        \E c \in Clocks : Construct(o, c))
         /\ ~ENABLED Export
    /\ pc = "exited" => exit_code = 1
    /\ EndedWithoutRaise =>
         /\ repo_idx = Len(repos) + 1
         /\ DOMAIN files = {EmailsFile, NoEmailsFile}
         /\ exit_code = 0

\* The rows of the aggregate, as the export lays them out.
AggregateRows ==
    [j \in 1..Len(all_users) |-> Row(all_users[j], Columns(all_users))]

\* A row with an email: neither missing nor the empty string.
HasEmail(r) == r.email \notin {None, NaN, ""}

FileUsernames(name) == [j \in 1..Len(files[name]) |-> files[name][j].username]

\* C14 (the claim as stated): once the export has written, the email file
\* holds exactly the records with a non-empty email and the no-email file all
\* the others, those with the empty string included, each record in exactly
\* one file; [alice with an address, bob with ""] puts only alice in the email
\* file and only bob in the no-email file.
C14_PartitionByNonEmptyEmail ==
    pc = "done" =>
        /\ files[EmailsFile] = SelectSeq(AggregateRows, HasEmail)
        /\ files[NoEmailsFile] = SelectSeq(AggregateRows, LAMBDA r : ~HasEmail(r))
        /\ Len(files[EmailsFile]) + Len(files[NoEmailsFile]) = Len(all_users)
        /\ (/\ Len(all_users) = 2
            /\ all_users[1] = UserDict(NamedUser("alice", "user@x.com"))
            /\ all_users[2] = UserDict(NamedUser("bob", ""))) =>
               /\ FileUsernames(EmailsFile) = <<"alice">>
               /\ FileUsernames(NoEmailsFile) = <<"bob">>

\* The export step has run: it wrote the files or it raised.
Exported == pc \in {"done", "crashed"}

\* C15 (the claim as stated): with no record to export (a repository without
\* starrers, watchers and forkers), the export step raises nothing, ends
\* normally and writes no row.
C15_EmptyAggregateExportsNothing ==
    (Exported /\ all_users = <<>>) =>
        /\ pc = "done"
        /\ raised = NoError
        /\ exit_code = 0
        /\ \A name \in DOMAIN files : files[name] = <<>>

\* map() is at work on the list a listing method returned.
Mapping == pc \in {"fetched", "call_resolve", "resolve_loop", "resolved"}

\* A step in which list(map(...)) is complete for the relation at work.
RelationDone == pc = "fetched" /\ pc' \in {"call_fetch", "main_loop"}

FetchEnded == pc \in {"fetched", "fetch_raised"}

\* C17: a listing request that does not end the call (by a non-200 status or
\* an empty page) adds at least one username; a call with expected count N
\* therefore issues at most N requests, none when N is 0, and every call
\* ends, by returning or by raising.
C17_FetchTerminatesWithinCountRequests ==
    /\ [](Len(log) <= expected)
    /\ [](\A j \in 1..(Len(log) - 1) :
            log[j].status = HTTP_OK /\ Len(log[j].body) >= 1)
    /\ [][(pc = "fetch_loop" /\ pc' = "fetch_loop") => Len(users') > Len(users)]_vars
    /\ <>FetchEnded

\* C17 witness: a call with expected count 2 that needed both requests, each
\* page bringing one username.
C17_Witness ==
    /\ pc = "fetched"
    /\ expected = 2
    /\ Len(log) = 2
    /\ Len(log[1].body) = 1
    /\ Len(log[2].body) = 1
    /\ Len(ret_users) = 2

(***************************************************************************)
(* Remote lookups over a whole run.                                        *)
(***************************************************************************)
InResolution == pc \in {"resolve_loop", "resolved", "resolve_raised"}

\* The records the run has built so far for the repository at work.  The
\* cache was empty when the run began, so each profile among them goes back
\* to a successful remote lookup of its username during this run.
EarlierRecords ==
    {mapped[j] : j \in 1..Len(mapped)}
    \cup UNION {{info[m][j] : j \in 1..Len(info[m])} : m \in 1..Len(info)}

LookedUpBefore ==
    \E rec \in EarlierRecords : Truthy(rec) /\ rec.username = username

\* A step of the resolver that calls g.get_user.
RemoteCallStep ==
    /\ pc = "resolve_loop"
    /\ Len(rlog') = Len(rlog) + 2 \/ Len(rlog') = Len(rlog) + 3
    /\ rlog'[Len(rlog) + 2].op = "get_user"

\* C18 (the claim as stated): once a remote lookup of a username has
\* succeeded, every later resolution of that username makes no remote call,
\* so no username is looked up successfully twice.
C18_AtMostOneSuccessfulRemoteLookup ==
    (InResolution /\ LookedUpBefore) => RemoteCalls = {}

\* C18 (amended): a remote lookup is made for a username only when no profile
\* of it has been stored for the repository (it was never fetched, or the
\* store raised) or when the cache lookup of that attempt raised; once a
\* profile is stored, a resolution whose cache lookups complete makes no
\* remote call.
C18_RemoteLookupOnlyWhenNotStoredOrLookupRaised ==
    [][RemoteCallStep =>
         \/ [repo |-> repo, username |-> username] \notin writers
         \/ ~rlog'[Len(rlog) + 1].ok]_vars

\* C18 witness: alice, a starrer whose profile was fetched and stored, is
\* resolved again as a watcher by one cache lookup and no remote call.
C18_Witness ==
    /\ pc = "resolved"
    /\ fetcher = Watch
    /\ username = "alice"
    /\ [repo |-> repo, username |-> "alice"] \in writers
    /\ Len(info) = 1
    /\ info[1] = <<ret_user>>
    /\ Truthy(ret_user)
    /\ rlog = <<LookupEvent(TRUE, TRUE)>>

(***************************************************************************)
(* Failures of the cache, checked under SpecResolve.                       *)
(***************************************************************************)
\* C19: a cache lookup that raises counts as a miss, whatever the table
\* holds: the remote lookup of that attempt follows; a cache store that
\* raises leaves the resolution returning the fetched profile with nothing
\* raised; neither costs a retry (only failed remote calls do), and a
\* resolution is aborted by a remote failure only.
C19_CacheFailuresDoNotAbort ==
    /\ \A j \in 1..Len(rlog) :
         (rlog[j].op = "lookup" /\ ~rlog[j].ok) =>
            /\ j < Len(rlog)
            /\ rlog[j + 1].op = "get_user"
    /\ (rlog # <<>> /\ rlog[Len(rlog)] = StoreEvent(FALSE)) =>
         /\ pc = "resolved"
         /\ raised = NoError
         /\ rlog[Len(rlog) - 1].op = "get_user"
         /\ rlog[Len(rlog) - 1].outcome.kind = "ok"
         /\ ret_user = ProfileOf(rlog[Len(rlog) - 1].outcome.gh_user)
    /\ InResolution => retry_limit = RetryLimit - Cardinality(TransientFailures)
    /\ pc = "resolve_raised" =>
         /\ rlog[Len(rlog)].op = "get_user"
         /\ rlog[Len(rlog)].outcome.kind = "GithubException"

\* C19 witness: the lookup raised although the table holds the username, the
\* remote lookup went ahead at the first attempt, its store raised too, and
\* the fetched profile, which differs from the cached one, was returned.
C19_Witness ==
    /\ pc = "resolved"
    /\ Len(rlog) = 3
    /\ rlog[1] = LookupEvent(FALSE, TRUE)
    /\ rlog[2].op = "get_user"
    /\ rlog[3] = StoreEvent(FALSE)
    /\ retry_limit = RetryLimit
    /\ raised = NoError
    /\ ret_user \in Profiles
    /\ Held(db, repo.name, username) # ret_user

(***************************************************************************)
(* Partition of the cache, checked under SpecCache.                        *)
(***************************************************************************)
\* Some repository with the short name of r has stored the username.
StoredUnderName(r, name) ==
    \E w \in writers : w.repo.name = r.name /\ w.username = name

\* C20: a lookup made for a repository finds an entry exactly when the
\* username was stored by a repository of the same short name, whoever its
\* owner: an entry stored for d6t/d6tpipe is found for fork/d6tpipe and is not
\* found for d6t/d6tflow.  (Found is what the resolver tests before it would
\* call the remote.)
C20_PartitionedByShortName ==
    /\ \A r \in Repositories : \A name \in Usernames :
         Truthy(GetUserFromDb(db, r, name, TRUE)) <=> StoredUnderName(r, name)
    /\ (Len(rlog) = 1 /\ rlog[1].op = "lookup" /\ rlog[1].ok) =>
         /\ Truthy(ret_user) <=> StoredUnderName(repo, username)
         /\ Truthy(ret_user) => ret_user.username = username

\* C20 witness: a lookup for fork/d6tpipe returned a profile that only
\* repositories of owner d6t have stored, d6t/d6tflow has stored another
\* username, and the table of d6tflow does not hold the one looked up.
C20_Witness ==
    /\ Len(rlog) = 1
    /\ rlog[1] = LookupEvent(TRUE, TRUE)
    /\ repo = [owner |-> "fork", name |-> "d6tpipe"]
    /\ Truthy(ret_user)
    /\ \A w \in writers : w.repo.owner = "d6t"
    /\ \E w \in writers : w.repo.name = "d6tflow"
    /\ Held(db, "d6tflow", username) = EmptyDict

====
